---------------------------- MODULE Spec2Model ----------------------------
(***************************************************************************)
(* Model of two internal extractors of binwalk:                            *)
(*   - bzip2_decompressor (src/src/extractors/bzip2.rs), the streaming      *)
(*     decompressor that walks concatenated bzip2 members;                  *)
(*   - extract_cpio (src/src/extractors/cpio.rs) with the header parser     *)
(*     parse_cpio_entry_header (src/src/structures/cpio.rs).                *)
(* One behaviour is one invocation: Init draws the arguments (buffer,       *)
(* offset, output directory), the actions are the steps of the invoked      *)
(* function, pc = "done" is its return.                                     *)
(***************************************************************************)
EXTENDS Integers, Sequences, FiniteSets, TLC

VARIABLES
    prog,                   \* which extractor is invoked: "bzip2" or "cpio"
    pc,                     \* position inside the invoked function
    file_data,              \* cpio: the bytes of the buffer (bzip2: see members)
    offset,                 \* the offset argument
    output_directory,       \* Option<&str> as a set: {} is None, {"out"} is Some
    result,                 \* ExtractionResult: [success, size], size an Option
    fs_ops,                 \* the calls made on the Chroot so far, in order
    \* extract_cpio locals
    next_offset, previous_offset, total_size, entries, entry_idx, extracted_count,
    archive,                \* the entry descriptions the cpio buffer was built from
    trailing,               \* the descriptions of what follows the sentinel in it
    \* bzip2_decompressor locals
    total_consumed, any_decompressed, current_offset, any_output_this_member,
    members,                \* the members laid out in the bzip2 buffer from offset on
    data_len,               \* bzip2: file_data.len()
    member_log,             \* per opened decoder: what it did (for the properties)
    chunks_read,            \* chunks the open decoder has returned so far
    \* parse_cpio_entry_header called on its own
    header_fields,          \* the values the slice in file_data was encoded from
    fault,                  \* what was then damaged in the slice
    parsed                  \* what the call returned

vars == <<prog, pc, file_data, offset, output_directory, result, fs_ops,
          next_offset, previous_offset, total_size, entries, entry_idx,
          extracted_count, archive, trailing, total_consumed, any_decompressed,
          current_offset, any_output_this_member, members, data_len,
          member_log, chunks_read, header_fields, fault, parsed>>

cpio_vars == <<file_data, next_offset, previous_offset, total_size, entries,
               entry_idx, extracted_count, archive, trailing>>

parse_vars == <<header_fields, fault, parsed>>

bzip2_vars == <<total_consumed, any_decompressed, current_offset,
                any_output_this_member, members, data_len, member_log,
                chunks_read>>

-----------------------------------------------------------------------------
(* Option<T> is the set of at most one value. *)
None == {}
Some(x) == {x}
Unwrap(o) == CHOOSE x \in o : TRUE

(* ExtractionResult::default() *)
DefaultResult == [success |-> FALSE, size |-> None]

Min(a, b) == IF a < b THEN a ELSE b

RECURSIVE SumSeq(_)
SumSeq(s) == IF s = <<>> THEN 0 ELSE Head(s) + SumSeq(Tail(s))

-----------------------------------------------------------------------------
(* Bounds of the model. *)
MaxEntries == 2      \* non-sentinel entries in a generated cpio archive
MaxDataSize == 4     \* largest data-size field of a generated entry
MaxCut == 2          \* bytes cut off the end of a generated cpio buffer
MaxTail == 1         \* bytes of junk after the generated archive / members
MaxStart == 1        \* bytes of junk before the payload (cpio: the start offset)
MaxMembers == 2      \* members in a generated bzip2 buffer
MaxEncLen == 2       \* largest encoded length of a generated member
MaxChunks == 2       \* most decoded chunks of a generated member

-----------------------------------------------------------------------------
(* src/src/structures/cpio.rs                                              *)

CPIO_HEADER_SIZE == 110
NULL_BYTE_SIZE == 1
CPIO_MAGIC_START == 0
CPIO_MAGIC_END == 6
MODE_START == 14
MODE_END == 22
DEV_MAJOR_START == 22
DEV_MAJOR_END == 30
DEV_MINOR_START == 30
DEV_MINOR_END == 38
FILE_SIZE_START == 54
FILE_SIZE_END == 62
FILE_NAME_SIZE_START == 94
FILE_NAME_SIZE_END == 102

(* data.get(a..b) and data[a..b] with 0-based, end-exclusive Rust ranges:  *)
(* None when a > b or b > len.                                             *)
Get(data, a, b) ==
    IF a <= b /\ b <= Len(data) THEN Some(SubSeq(data, a + 1, b)) ELSE None

(* data.get(a..) *)
GetFrom(data, a) == Get(data, a, Len(data))

(* String::from_utf8: whether the bytes are well-formed UTF-8. *)
IsCont(b) == b >= 128 /\ b <= 191

RECURSIVE IsUtf8(_)
IsUtf8(s) ==
    IF s = <<>> THEN TRUE
    ELSE LET b == s[1]
             n == Len(s)
             rest(k) == SubSeq(s, k + 1, n)
         IN  IF b < 128 THEN IsUtf8(rest(1))
             ELSE IF b >= 194 /\ b <= 223
                  THEN n >= 2 /\ IsCont(s[2]) /\ IsUtf8(rest(2))
             ELSE IF b >= 224 /\ b <= 239
                  THEN /\ n >= 3
                       /\ IsCont(s[2]) /\ IsCont(s[3])
                       /\ (b = 224 => s[2] >= 160)
                       /\ (b = 237 => s[2] <= 159)
                       /\ IsUtf8(rest(3))
             ELSE IF b >= 240 /\ b <= 244
                  THEN /\ n >= 4
                       /\ IsCont(s[2]) /\ IsCont(s[3]) /\ IsCont(s[4])
                       /\ (b = 240 => s[2] >= 144)
                       /\ (b = 244 => s[2] <= 143)
                       /\ IsUtf8(rest(4))
             ELSE FALSE

(* The value of one base-16 digit, -1 when the byte is no digit. *)
HexDigit(b) ==
    IF b >= 48 /\ b <= 57 THEN b - 48
    ELSE IF b >= 65 /\ b <= 70 THEN b - 55
    ELSE IF b >= 97 /\ b <= 102 THEN b - 87
    ELSE -1

RECURSIVE HexDigits(_, _)
HexDigits(s, acc) ==
    IF s = <<>> THEN acc ELSE HexDigits(Tail(s), acc * 16 + HexDigit(Head(s)))

(* usize::from_str_radix(s, 16): an optional leading '+', then one or more *)
(* hex digits of either case; anything else is an error (None).            *)
FromStrRadix16(s) ==
    LET digits == IF Len(s) > 1 /\ s[1] = 43 THEN Tail(s) ELSE s
    IN  IF digits = <<>> \/ \E i \in 1..Len(digits) : HexDigit(digits[i]) < 0
        THEN None
        ELSE Some(HexDigits(digits, 0))

(* String::from_utf8(cpio_data[a..b]) followed by from_str_radix(.., 16)   *)
HexField(cpio_data, a, b) ==
    LET raw == SubSeq(cpio_data, a + 1, b)
    IN  IF IsUtf8(raw) THEN FromStrRadix16(raw) ELSE None

(* Mutation of byte_padding: the remainder is added, not its complement. *)
byte_padding_Remainder(n) == n % 4

(* Lines 115-118: the bytes needed to reach a multiple of 4. *)
byte_padding(n) ==
    LET modulus == n % 4 IN IF modulus = 0 THEN 0 ELSE 4 - modulus

S_IFMT == 61440
S_IFREG == 32768
S_IFDIR == 16384
S_IFLNK == 40960
S_IFBLK == 24576
S_IFCHR == 8192
S_IFIFO == 4096
S_IFSOCK == 49152

(* mode & S_IFMT: S_IFMT is bits 12..15, S_IFIFO is bit 12 *)
parse_file_type(mode) ==
    LET masked == ((mode \div S_IFIFO) % 16) * S_IFIFO
    IN  CASE masked = S_IFREG -> "Regular"
          [] masked = S_IFDIR -> "Directory"
          [] masked = S_IFLNK -> "Symlink"
          [] masked = S_IFBLK -> "BlockDevice"
          [] masked = S_IFCHR -> "CharDevice"
          [] masked = S_IFIFO -> "Fifo"
          [] masked = S_IFSOCK -> "Socket"
          [] OTHER -> "Unknown"

(* mode & (S_IXUSR | S_IXGRP | S_IXOTH) != 0: bits 6, 3 and 0 *)
is_executable(mode) ==
    \/ (mode \div 64) % 2 = 1
    \/ (mode \div 8) % 2 = 1
    \/ mode % 2 = 1

(* Result<CPIOEntryHeader, StructureError>: Err is [ok |-> FALSE]. *)
StructureError == [ok |-> FALSE]

parse_cpio_entry_header(cpio_data) ==
    LET available_data == Len(cpio_data)
    IN  IF ~(available_data > CPIO_HEADER_SIZE) THEN StructureError
        ELSE
        LET header_magic == SubSeq(cpio_data, CPIO_MAGIC_START + 1, CPIO_MAGIC_END)
            mode == HexField(cpio_data, MODE_START, MODE_END)
            dev_major == HexField(cpio_data, DEV_MAJOR_START, DEV_MAJOR_END)
            dev_minor == HexField(cpio_data, DEV_MINOR_START, DEV_MINOR_END)
            file_data_size == HexField(cpio_data, FILE_SIZE_START, FILE_SIZE_END)
            file_name_size ==
                HexField(cpio_data, FILE_NAME_SIZE_START, FILE_NAME_SIZE_END)
        IN  IF mode = None \/ dev_major = None \/ dev_minor = None
               \/ file_data_size = None \/ file_name_size = None
            THEN StructureError
            ELSE
            LET file_name_start == CPIO_HEADER_SIZE
                file_name_end ==
                    file_name_start + Unwrap(file_name_size) - NULL_BYTE_SIZE
                file_name_raw_bytes == Get(cpio_data, file_name_start, file_name_end)
            IN  IF file_name_raw_bytes = None THEN StructureError
                ELSE IF ~IsUtf8(Unwrap(file_name_raw_bytes)) THEN StructureError
                ELSE
                LET header_total_size == CPIO_HEADER_SIZE + Unwrap(file_name_size)
                IN  [ok |-> TRUE,
                     magic |-> header_magic,
                     file_name |-> Unwrap(file_name_raw_bytes),
                     data_size |-> Unwrap(file_data_size)
                                     + byte_padding(Unwrap(file_data_size)),
                     header_size |-> header_total_size
                                       + byte_padding(header_total_size),
                     mode |-> Unwrap(mode),
                     file_type |-> parse_file_type(Unwrap(mode)),
                     dev_major |-> Unwrap(dev_major),
                     dev_minor |-> Unwrap(dev_minor)]

-----------------------------------------------------------------------------
(* Generated cpio buffers: the inputs of extract_cpio.  A buffer is built  *)
(* from a list of entry descriptions laid out the way the parser reads     *)
(* them: a 110-byte header of ASCII-hex fields, the name and its NUL, zero *)
(* padding to a multiple of 4, the data, zero padding to a multiple of 4.  *)

HexChar(d) == IF d < 10 THEN 48 + d ELSE 55 + d

Pow16(k) == IF k = 0 THEN 1 ELSE IF k = 1 THEN 16 ELSE IF k = 2 THEN 256
            ELSE IF k = 3 THEN 4096 ELSE IF k = 4 THEN 65536
            ELSE IF k = 5 THEN 1048576 ELSE IF k = 6 THEN 16777216
            ELSE 268435456

Hex8(n) == [i \in 1..8 |-> HexChar((n \div Pow16(8 - i)) % 16)]

Zeros(n) == [i \in 1..n |-> 0]

EncodeHeader(d) ==
    LET mode_s == Hex8(d.mode)
        major_s == Hex8(d.dev_major)
        minor_s == Hex8(d.dev_minor)
        size_s == Hex8(d.size)
        nsize_s == Hex8(Len(d.name) + NULL_BYTE_SIZE)
        magic_s == <<48, 55, 48, 55, 48, 49>>
    IN  [i \in 1..CPIO_HEADER_SIZE |->
            IF i <= CPIO_MAGIC_END THEN magic_s[i]
            ELSE IF i > MODE_START /\ i <= MODE_END THEN mode_s[i - MODE_START]
            ELSE IF i > DEV_MAJOR_START /\ i <= DEV_MAJOR_END
                 THEN major_s[i - DEV_MAJOR_START]
            ELSE IF i > DEV_MINOR_START /\ i <= DEV_MINOR_END
                 THEN minor_s[i - DEV_MINOR_START]
            ELSE IF i > FILE_SIZE_START /\ i <= FILE_SIZE_END
                 THEN size_s[i - FILE_SIZE_START]
            ELSE IF i > FILE_NAME_SIZE_START /\ i <= FILE_NAME_SIZE_END
                 THEN nsize_s[i - FILE_NAME_SIZE_START]
            ELSE 48]

Align4(n) == ((n + 3) \div 4) * 4

(* The data of a generated entry: 'a', 'b', 'c', ... *)
EntryData(d) == [j \in 1..d.size |-> 96 + j]

EncodeEntry(d) ==
    LET hdr == CPIO_HEADER_SIZE + Len(d.name) + NULL_BYTE_SIZE
    IN  EncodeHeader(d) \o d.name \o Zeros(NULL_BYTE_SIZE)
        \o Zeros(Align4(hdr) - hdr)
        \o EntryData(d) \o Zeros(Align4(d.size) - d.size)

RECURSIVE EncodeArchive(_)
EncodeArchive(a) ==
    IF a = <<>> THEN <<>> ELSE EncodeEntry(Head(a)) \o EncodeArchive(Tail(a))

(* The bytes a generated entry occupies: padded header plus padded data. *)
EntrySpan(d) ==
    Align4(CPIO_HEADER_SIZE + Len(d.name) + NULL_BYTE_SIZE) + Align4(d.size)

EOF_MARKER == <<84, 82, 65, 73, 76, 69, 82, 33, 33, 33>>

(* Modes of generated entries: a type pattern plus permission bits        *)
(* (0o644 = 420, 0o755 = 493); NoTypeMode carries type bits 0o050000,      *)
(* which is none of the seven known patterns.                              *)
RegMode == S_IFREG + 420
ExecMode == S_IFREG + 493
DirMode == S_IFDIR + 493
LnkMode == S_IFLNK + 420
BlkMode == S_IFBLK + 420
ChrMode == S_IFCHR + 420
FifoMode == S_IFIFO + 420
SockMode == S_IFSOCK + 420
NoTypeMode == S_IFDIR + S_IFIFO + 420

(* The (mode, size) pairs of generated entries. *)
EntryShapes ==
    {<<RegMode, s>> : s \in {0, 1, MaxDataSize}}
    \cup {<<ExecMode, 1>>, <<LnkMode, 2>>}
    \cup {<<m, 0>> : m \in {DirMode, BlkMode, ChrMode, FifoMode, SockMode,
                            NoTypeMode}}

(* The i-th entry is named "a", "bb", "ccc", ... and carries device        *)
(* numbers that differ between entries and between major and minor.       *)
MakeEntry(i, shape) ==
    [name |-> [j \in 1..i |-> 96 + i], mode |-> shape[1], size |-> shape[2],
     dev_major |-> 8 + i, dev_minor |-> i]

MakeTrailer(size) ==
    [name |-> EOF_MARKER, mode |-> 0, size |-> size, dev_major |-> 0,
     dev_minor |-> 0]

Archives ==
    LET Plain == UNION {[1..n -> EntryShapes] : n \in 0..MaxEntries}
        Body(f) == [i \in 1..Len(f) |-> MakeEntry(i, f[i])]
    IN  {Body(f) : f \in Plain}
        \cup {Body(f) \o <<MakeTrailer(s)>> : f \in Plain, s \in {0, MaxDataSize}}

(* What a generated buffer holds after the sentinel: nothing, one more     *)
(* entry, or a second sentinel (an archive with fewer than MaxEntries      *)
(* entries has room for it).                                               *)
TrailingShapes == {<<RegMode, 1>>, <<BlkMode, 0>>}

Tails(a) ==
    IF a # <<>> /\ a[Len(a)].name = EOF_MARKER /\ Len(a) <= MaxEntries
    THEN {<<>>, <<MakeTrailer(0)>>}
         \cup {<<MakeEntry(Len(a), shape)>> : shape \in TrailingShapes}
    ELSE {<<>>}

(* Slices for parse_cpio_entry_header called on its own: one encoded entry *)
(* (header, name, data), left intact or damaged in one place.              *)
NoFault == [kind |-> "none", field |-> "none"]

HeaderFields ==
    {"magic", "mode", "dev_major", "dev_minor", "file_size", "file_name_size"}

FieldEnd(field) ==
    CASE field = "magic" -> CPIO_MAGIC_END
      [] field = "mode" -> MODE_END
      [] field = "dev_major" -> DEV_MAJOR_END
      [] field = "dev_minor" -> DEV_MINOR_END
      [] field = "file_size" -> FILE_SIZE_END
      [] field = "file_name_size" -> FILE_NAME_SIZE_END

Faults ==
    {NoFault, [kind |-> "short", field |-> "none"],
     [kind |-> "zero", field |-> "file_name_size"],
     [kind |-> "outside_slice", field |-> "file_name"],
     [kind |-> "not_utf8", field |-> "file_name"]}
    \cup {[kind |-> k, field |-> f] : k \in {"not_hex", "not_utf8"},
                                     f \in HeaderFields}

(* "short": the slice is the fixed header and nothing more.  "zero": the   *)
(* name-size field reads 0.  "outside_slice": the slice ends one byte      *)
(* before the name does.  "not_hex": the last character of the field is    *)
(* 'G'.  "not_utf8": the last byte of the field, or the first of the name, *)
(* is 0xFF.                                                                *)
Damaged(bytes, d, f) ==
    CASE f.kind = "none" -> bytes
      [] f.kind = "short" -> SubSeq(bytes, 1, CPIO_HEADER_SIZE)
      [] f.kind = "zero" -> [bytes EXCEPT ![FILE_NAME_SIZE_END] = HexChar(0)]
      [] f.kind = "outside_slice" ->
             SubSeq(bytes, 1, CPIO_HEADER_SIZE + Len(d.name) - 1)
      [] f.kind = "not_hex" -> [bytes EXCEPT ![FieldEnd(f.field)] = 71]
      [] f.kind = "not_utf8" /\ f.field = "file_name" ->
             [bytes EXCEPT ![CPIO_HEADER_SIZE + 1] = 255]
      [] f.kind = "not_utf8" /\ f.field # "file_name" ->
             [bytes EXCEPT ![FieldEnd(f.field)] = 255]

(* A fault in the name needs a name long enough to carry it. *)
Applicable(d, f) ==
    /\ f.kind = "outside_slice" => Len(d.name) >= 2
    /\ (f.kind = "not_utf8" /\ f.field = "file_name") => Len(d.name) >= 1

(* The encoded values: every generated entry shape and every data size up *)
(* to MaxDataSize, under the names "", "a", "bb", ... and under a two-byte *)
(* UTF-8 name.                                                             *)
ParseShapes == EntryShapes \cup {<<RegMode, s>> : s \in 0..MaxDataSize}

ParseInputs ==
    {MakeEntry(i, shape) : i \in 0..MaxEntries, shape \in ParseShapes}
    \cup {[MakeEntry(1, shape) EXCEPT !.name = <<195, 169>>] :
             shape \in ParseShapes}

(* trim < 0 cuts bytes off the end, trim > 0 appends junk bytes. *)
Trimmed(bytes, trim) ==
    IF trim >= 0 THEN bytes \o Zeros(trim)
    ELSE SubSeq(bytes, 1, IF Len(bytes) + trim > 0 THEN Len(bytes) + trim ELSE 0)

BuildBuffer(start, a, trim) == Zeros(start) \o Trimmed(EncodeArchive(a), trim)

-----------------------------------------------------------------------------
(* crate::common::is_offset_safe: the next offset lies inside the buffer   *)
(* and is strictly greater than the previous accepted offset.              *)
is_offset_safe(available_data, next, previous) ==
    /\ previous = None \/ Unwrap(previous) < next
    /\ next < available_data

-----------------------------------------------------------------------------
(* src/src/extractors/cpio.rs                                              *)

calculate_padding(size) ==
    LET modulus == size % 4 IN IF modulus = 0 THEN 0 ELSE 4 - modulus

(* target_bytes.iter().copied().take_while(|&b| b != 0).collect() *)
RECURSIVE TakeWhileNonZero(_)
TakeWhileNonZero(s) ==
    IF s = <<>> \/ Head(s) = 0 THEN <<>>
    ELSE <<Head(s)>> \o TakeWhileNonZero(Tail(s))

(* Mutation of AfterWalk: the output directory is not consulted. *)
AfterWalk_IgnoreDirectory(res) == IF res.success THEN "extract" ELSE "done"

(* Where the while loop of extract_cpio leaves to: the materialization     *)
(* loop when the trailer was found and an output directory was given.      *)
AfterWalk(res) ==
    IF res.success /\ output_directory # None THEN "extract" ELSE "done"

(* Lines 31-35: file_data.get(next_offset..) and the parse of the header. *)
HeaderAt(data, at) ==
    IF GetFrom(data, at) = None THEN StructureError
    ELSE parse_cpio_entry_header(Unwrap(GetFrom(data, at)))

(* Mutation of MakeCPIOEntry: the device numbers are swapped. *)
MakeCPIOEntry_SwapDevice(header, at) ==
    [name |-> header.file_name,
     file_type |-> header.file_type,
     mode |-> header.mode,
     data_offset |-> at + header.header_size,
     data_size |-> header.data_size,
     dev_major |-> header.dev_minor,
     dev_minor |-> header.dev_major]

(* Lines 49-57: the entry recorded for a parsed header. *)
MakeCPIOEntry(header, at) ==
    [name |-> header.file_name,
     file_type |-> header.file_type,
     mode |-> header.mode,
     data_offset |-> at + header.header_size,
     data_size |-> header.data_size,
     dev_major |-> header.dev_major,
     dev_minor |-> header.dev_minor]

(* Mutation of EntryTotalSize: the data region is left out of the sum. *)
EntryTotalSize_HeaderOnly(header) == header.header_size

(* Mutation of EntryTotalSize: an entry takes no room. *)
EntryTotalSize_Zero(header) == header.header_size - header.header_size

(* Line 37: what one parsed entry adds to total_size and to next_offset. *)
EntryTotalSize(header) == header.header_size + header.data_size

(* Mutation of IsEofMarker: only a name that merely starts like the       *)
(* marker is taken for it.                                                 *)
IsEofMarker_Longer(file_name) ==
    /\ Len(file_name) > Len(EOF_MARKER)
    /\ SubSeq(file_name, 1, Len(EOF_MARKER)) = EOF_MARKER

(* Line 40: `if header.file_name == EOF_MARKER` *)
IsEofMarker(file_name) == file_name = EOF_MARKER

(* One iteration of the while loop, its condition included. *)
CpioWalk ==
    /\ prog = "cpio" /\ pc = "walk"
    /\ IF ~is_offset_safe(Len(file_data), next_offset, previous_offset)
       THEN /\ pc' = AfterWalk(result)
            /\ UNCHANGED <<result, total_size, entries, previous_offset,
                           next_offset>>
       ELSE \E header \in {HeaderAt(file_data, next_offset)} :
            IF ~header.ok
            THEN /\ pc' = AfterWalk(result)
                 /\ UNCHANGED <<result, total_size, entries, previous_offset,
                                next_offset>>
            ELSE \E entry_total_size \in {EntryTotalSize(header)} :
                 /\ total_size' = total_size + entry_total_size
                 /\ IF IsEofMarker(header.file_name)
                    THEN /\ result' = [success |-> TRUE, size |-> Some(total_size')]
                         /\ pc' = AfterWalk(result')
                         /\ UNCHANGED <<entries, previous_offset, next_offset>>
                    ELSE /\ entries' = Append(entries,
                                              MakeCPIOEntry(header, next_offset))
                         /\ previous_offset' = Some(next_offset)
                         /\ next_offset' = next_offset + entry_total_size
                         /\ UNCHANGED <<result, pc>>
    /\ UNCHANGED <<prog, file_data, offset, output_directory, fs_ops, entry_idx,
                   extracted_count, archive, trailing, bzip2_vars, parse_vars>>

(* Chroot (crate::extractors::common): each operation is a call whose      *)
(* success the filesystem decides; carving needs the byte range to exist.  *)
CarveOutcomes(data, start, size) ==
    IF start + size <= Len(data) THEN BOOLEAN ELSE {FALSE}

(* The length extract_cpio_entry hands to carve_file / reads a target of. *)
actual_size(entry) == entry.data_size - calculate_padding(entry.data_size)

(* extract_cpio_entry: the Chroot calls it makes and what it returns, when *)
(* the Chroot answers fs_ok to the creating call.                          *)
extract_cpio_entry(data, entry, fs_ok) ==
    LET file_path == entry.name
        target_bytes ==
            Get(data, entry.data_offset, entry.data_offset + actual_size(entry))
        target == IF target_bytes = None THEN <<>>
                  ELSE TakeWhileNonZero(Unwrap(target_bytes))
        call ==
            CASE entry.file_type = "Directory" ->
                   <<[op |-> "create_directory", path |-> file_path, ok |-> fs_ok]>>
              [] entry.file_type = "Regular" ->
                   <<[op |-> "carve_file", path |-> file_path,
                      start |-> entry.data_offset, size |-> actual_size(entry),
                      ok |-> fs_ok]>>
              [] entry.file_type = "Symlink" ->
                   IF target_bytes # None /\ IsUtf8(target)
                   THEN <<[op |-> "create_symlink", path |-> file_path,
                           target |-> target, ok |-> fs_ok]>>
                   ELSE <<>>
              [] entry.file_type = "Fifo" ->
                   <<[op |-> "create_fifo", path |-> file_path, ok |-> fs_ok]>>
              [] entry.file_type = "Socket" ->
                   <<[op |-> "create_socket", path |-> file_path, ok |-> fs_ok]>>
              [] entry.file_type = "BlockDevice" ->
                   <<[op |-> "create_block_device", path |-> file_path,
                      major |-> entry.dev_major, minor |-> entry.dev_minor,
                      ok |-> fs_ok]>>
              [] entry.file_type = "CharDevice" ->
                   <<[op |-> "create_character_device", path |-> file_path,
                      major |-> entry.dev_major, minor |-> entry.dev_minor,
                      ok |-> fs_ok]>>
              [] OTHER -> <<>>
        extraction_success == call # <<>> /\ fs_ok
        chmod == IF extraction_success /\ entry.file_type = "Regular"
                    /\ is_executable(entry.mode)
                 THEN <<[op |-> "make_executable", path |-> file_path, ok |-> TRUE]>>
                 ELSE <<>>
    IN  [ops |-> call \o chmod, success |-> extraction_success]

(* Mutation of NextEntry: the loop is left at the first entry that fails. *)
NextEntry_BreakOnFailure(idx, extracted, count) ==
    IF extracted THEN idx + 1 ELSE count + 1

(* Lines 71-75: `for entry in &entries` goes on to the next entry whatever *)
(* extract_cpio_entry returned.                                            *)
NextEntry(idx, extracted, count) == idx + 1

(* One iteration of `for entry in &entries`. *)
CpioExtractEntry ==
    /\ prog = "cpio" /\ pc = "extract"
    /\ entry_idx <= Len(entries)
    /\ LET entry == entries[entry_idx]
       IN  \E fs_ok \in IF entry.file_type = "Regular"
                        THEN CarveOutcomes(file_data, entry.data_offset,
                                           actual_size(entry))
                        ELSE BOOLEAN :
              LET r == extract_cpio_entry(file_data, entry, fs_ok)
              IN  /\ fs_ops' = fs_ops \o r.ops
                  /\ extracted_count' =
                        IF r.success THEN extracted_count + 1 ELSE extracted_count
                  /\ entry_idx' = NextEntry(entry_idx, r.success, Len(entries))
    /\ UNCHANGED <<prog, pc, file_data, offset, output_directory, result,
                   next_offset, previous_offset, total_size, entries, archive,
                   trailing,
                   bzip2_vars, parse_vars>>

(* Mutation of DowngradeResult: a failed materialization drops the size. *)
DowngradeResult_ClearSize(res, count) ==
    IF count = 0 THEN DefaultResult ELSE res

(* Mutation of DowngradeResult: the zero-entries rule is missing. *)
DowngradeResult_Keep(res, count) == res

(* Lines 77-79: no entry materialized, so the call did not succeed. *)
DowngradeResult(res, count) ==
    IF count = 0 THEN [res EXCEPT !.success = FALSE] ELSE res

(* The end of the materialization loop and the return. *)
CpioReturn ==
    /\ prog = "cpio" /\ pc = "extract"
    /\ entry_idx > Len(entries)
    /\ result' = DowngradeResult(result, extracted_count)
    /\ pc' = "done"
    /\ UNCHANGED <<prog, file_data, offset, output_directory, fs_ops,
                   next_offset, previous_offset, total_size, entries, entry_idx,
                   extracted_count, archive, trailing, bzip2_vars, parse_vars>>

-----------------------------------------------------------------------------
(* src/src/extractors/bzip2.rs                                             *)
(*                                                                         *)
(* The codec is a library.  A generated buffer holds, from offset on, the  *)
(* members back to back and then junk; a member is its encoded length, the *)
(* number of chunks its decoder returns, and whether the decoder then      *)
(* reports end-of-data (ok) or an error.  A decoder opened anywhere else   *)
(* than at the start of a member reads no stream header and fails at once. *)

MemberStart(i) == offset + SumSeq([j \in 1..(i - 1) |-> members[j].len])

Garbage == [len |-> 0, chunks |-> 0, ok |-> FALSE]

(* BzDecoder::new(Cursor::new(&file_data[at..])): what this decoder does. *)
MemberIndexAt(at) ==
    IF \E i \in 1..Len(members) : MemberStart(i) = at
    THEN CHOOSE i \in 1..Len(members) :
            MemberStart(i) = at /\ \A j \in 1..(i - 1) : MemberStart(j) # at
    ELSE 0

DecoderAt(at) == IF MemberIndexAt(at) = 0 THEN Garbage ELSE members[MemberIndexAt(at)]

(* decoder.into_inner().position(): bzip2::read::BzDecoder pulls its input *)
(* from the reader it wraps in blocks, through a buffered reader of its    *)
(* own, and into_inner() hands the cursor back as that reader left it.     *)
(* The cursor therefore stands at or after the end of the member, at most  *)
(* at the end of the slice; how far past depends on the block size and on  *)
(* where the member ends, so every such position is an outcome.            *)
CursorPositions(member, slice_len) == member.len..slice_len

(* Mutation of BzFinalResult: the size is present even when it is zero. *)
BzFinalResult_AlwaysPresent(consumed_total, any) ==
    [success |-> any, size |-> Some(consumed_total)]

(* Lines 114-117: the result after the member loop. *)
BzFinalResult(consumed_total, any) ==
    [success |-> any,
     size |-> IF consumed_total > 0 THEN Some(consumed_total) ELSE None]

(* Mutation of BzAbortResult: a failing member discards what was done. *)
BzAbortResult_Discard(consumed_total, any) == DefaultResult

(* Lines 83-85 and 91-93: the result when a member fails. *)
BzAbortResult(consumed_total, any) ==
    [success |-> any, size |-> Some(consumed_total)]

(* Mutation of MarkDecompressed: the flag is overwritten per member. *)
MarkDecompressed_Overwrite(any, any_this_member) == any_this_member

(* Lines 109-111: if any_output_this_member { any_decompressed = true } *)
MarkDecompressed(any, any_this_member) == any \/ any_this_member

(* Mutation of PastEnd: an offset equal to the length is let through. *)
PastEnd_Strict(at, len) == at > len

(* Lines 49 and 59: `offset >= file_data.len()`, the test of the early     *)
(* return and of the break at the head of the member loop.                 *)
PastEnd(at, len) == at >= len

(* Lines 49-55: the offset check and the initialisation of the locals. *)
BzStart ==
    /\ prog = "bzip2" /\ pc = "start"
    /\ pc' = IF PastEnd(offset, data_len) THEN "done" ELSE "loop"
    /\ UNCHANGED <<prog, file_data, offset, output_directory, result, fs_ops,
                   cpio_vars, bzip2_vars, parse_vars>>

(* Lines 58-67: the head of the member loop; line 114 when it breaks.      *)
BzLoop ==
    /\ prog = "bzip2" /\ pc = "loop"
    /\ IF PastEnd(current_offset, data_len)
       THEN /\ result' = BzFinalResult(total_consumed, any_decompressed)
            /\ pc' = "done"
            /\ UNCHANGED <<any_output_this_member, chunks_read, member_log>>
       ELSE /\ any_output_this_member' = FALSE
            /\ chunks_read' = 0
            /\ member_log' = Append(member_log,
                   [at |-> current_offset, idx |-> MemberIndexAt(current_offset),
                    chunks |-> 0, appended |-> 0, end |-> "open",
                    consumed |-> 0])
            /\ pc' = "read"
            /\ UNCHANGED result
    /\ UNCHANGED <<prog, file_data, offset, output_directory, fs_ops, cpio_vars, parse_vars,
                   total_consumed, any_decompressed, current_offset, members,
                   data_len>>

(* Mutation of AppendChunk: the file is rewritten, not appended to. *)
AppendChunk_Truncate(ops, member, k, ok) ==
    <<[op |-> "append_to_file", path |-> "decompressed.bin",
       chunk |-> <<member, k>>, ok |-> ok]>>

(* Lines 79-81: chroot.append_to_file(OUTPUT_FILE_NAME, &read_buf[..n]),   *)
(* the k-th chunk of the member the open decoder reads.                    *)
AppendChunk(ops, member, k, ok) ==
    Append(ops, [op |-> "append_to_file", path |-> "decompressed.bin",
                 chunk |-> <<member, k>>, ok |-> ok])

(* Lines 75-88: decoder.read returned Ok(n), n > 0. *)
BzReadChunk ==
    /\ prog = "bzip2" /\ pc = "read"
    /\ chunks_read < DecoderAt(current_offset).chunks
    /\ any_output_this_member' = TRUE
    /\ chunks_read' = chunks_read + 1
    /\ IF output_directory # None
       THEN \E ok \in BOOLEAN :
              /\ fs_ops' = AppendChunk(fs_ops, MemberIndexAt(current_offset),
                                       chunks_read + 1, ok)
              /\ IF ok
                 THEN /\ member_log' = [member_log EXCEPT
                            ![Len(member_log)].chunks = @ + 1,
                            ![Len(member_log)].appended = @ + 1]
                      /\ UNCHANGED <<result, pc>>
                 ELSE /\ result' = BzAbortResult(total_consumed, any_decompressed)
                      /\ member_log' = [member_log EXCEPT
                            ![Len(member_log)].chunks = @ + 1,
                            ![Len(member_log)].end = "write_failed"]
                      /\ pc' = "done"
       ELSE /\ member_log' = [member_log EXCEPT ![Len(member_log)].chunks = @ + 1]
            /\ UNCHANGED <<fs_ops, result, pc>>
    /\ UNCHANGED <<prog, file_data, offset, output_directory, cpio_vars, parse_vars,
                   total_consumed, any_decompressed, current_offset, members,
                   data_len>>

(* Lines 89-94: decoder.read returned Err. *)
BzReadErr ==
    /\ prog = "bzip2" /\ pc = "read"
    /\ chunks_read = DecoderAt(current_offset).chunks
    /\ ~DecoderAt(current_offset).ok
    /\ result' = BzAbortResult(total_consumed, any_decompressed)
    /\ member_log' = [member_log EXCEPT ![Len(member_log)].end = "error"]
    /\ pc' = "done"
    /\ UNCHANGED <<prog, file_data, offset, output_directory, fs_ops, cpio_vars, parse_vars,
                   total_consumed, any_decompressed, current_offset,
                   any_output_this_member, members, data_len, chunks_read>>

(* Mutation of AddConsumed: the count is assigned, not added. *)
AddConsumed_Assign(sum, consumed) == consumed

(* Lines 106-107: `current_offset += consumed; total_consumed += consumed` *)
AddConsumed(sum, consumed) == sum + consumed

(* Lines 71-74 and 98-111: decoder.read returned Ok(0); the member is      *)
(* over, the consumed bytes are taken from the cursor.                     *)
BzMemberEnd ==
    /\ prog = "bzip2" /\ pc = "read"
    /\ chunks_read = DecoderAt(current_offset).chunks
    /\ DecoderAt(current_offset).ok
    /\ \E consumed \in CursorPositions(DecoderAt(current_offset),
                                       data_len - current_offset) :
          /\ member_log' = [member_log EXCEPT
                               ![Len(member_log)].end = "eof",
                               ![Len(member_log)].consumed = consumed]
          /\ IF consumed = 0
             THEN /\ result' = BzFinalResult(total_consumed, any_decompressed)
                  /\ pc' = "done"
                  /\ UNCHANGED <<current_offset, total_consumed, any_decompressed>>
             ELSE /\ current_offset' = AddConsumed(current_offset, consumed)
                  /\ total_consumed' = AddConsumed(total_consumed, consumed)
                  /\ any_decompressed' =
                        MarkDecompressed(any_decompressed, any_output_this_member)
                  /\ pc' = "loop"
                  /\ UNCHANGED result
    /\ UNCHANGED <<prog, file_data, offset, output_directory, fs_ops, cpio_vars, parse_vars,
                   any_output_this_member, members, data_len, chunks_read>>

-----------------------------------------------------------------------------
(* Generated bzip2 buffers. *)

MemberShapes(ok) ==
    [len : {1, MaxEncLen}, chunks : {0, MaxChunks}, ok : {ok}]
    \cup [len : {0}, chunks : {0}, ok : {ok}]

(* Members that decode to end-of-data, the last one possibly failing. *)
MemberLayouts ==
    {<<>>}
    \cup UNION {{good \o <<last>> :
                    good \in [1..n -> MemberShapes(TRUE)],
                    last \in MemberShapes(TRUE) \cup MemberShapes(FALSE)} :
                n \in 0..(MaxMembers - 1)}

StartOffsets == {0, MaxStart}

-----------------------------------------------------------------------------
InitCpio ==
    /\ prog = "cpio" /\ pc = "walk"
    /\ archive \in Archives
    /\ trailing \in Tails(archive)
    /\ offset = MaxStart
    /\ \E trim \in {-MaxCut, 0, MaxTail} :
          file_data = BuildBuffer(offset, archive \o trailing, trim)
    /\ output_directory \in {None, Some("out")}
    /\ result = DefaultResult
    /\ fs_ops = <<>>
    /\ next_offset = offset
    /\ previous_offset = None
    /\ total_size = 0
    /\ entries = <<>>
    /\ entry_idx = 1
    /\ extracted_count = 0
    /\ total_consumed = 0 /\ any_decompressed = FALSE /\ current_offset = 0
    /\ any_output_this_member = FALSE /\ members = <<>> /\ data_len = 0
    /\ member_log = <<>> /\ chunks_read = 0
    /\ header_fields = MakeTrailer(0) /\ fault = NoFault /\ parsed = StructureError

InitBzip2 ==
    /\ prog = "bzip2" /\ pc = "start"
    /\ members \in MemberLayouts
    /\ offset \in StartOffsets \cup {MaxStart + MaxMembers * MaxEncLen + MaxTail}
    /\ \E tail \in {0, MaxTail} :
          data_len = Min(offset, MaxStart)
                     + SumSeq([j \in 1..Len(members) |-> members[j].len]) + tail
    /\ output_directory \in {None, Some("out")}
    /\ result = DefaultResult
    /\ fs_ops = <<>>
    /\ total_consumed = 0
    /\ any_decompressed = FALSE
    /\ current_offset = offset
    /\ any_output_this_member = FALSE
    /\ member_log = <<>>
    /\ chunks_read = 0
    /\ file_data = <<>> /\ next_offset = 0 /\ previous_offset = None
    /\ total_size = 0 /\ entries = <<>> /\ entry_idx = 1 /\ extracted_count = 0
    /\ archive = <<>> /\ trailing = <<>>
    /\ header_fields = MakeTrailer(0) /\ fault = NoFault /\ parsed = StructureError

Init == InitCpio \/ InitBzip2

(* parse_cpio_entry_header called on one slice. *)
InitParse ==
    /\ prog = "parse" /\ pc = "parse"
    /\ header_fields \in ParseInputs
    /\ fault \in {f \in Faults : Applicable(header_fields, f)}
    /\ file_data = Damaged(EncodeEntry(header_fields), header_fields, fault)
    /\ parsed = StructureError
    /\ offset = 0 /\ output_directory = None /\ result = DefaultResult
    /\ fs_ops = <<>> /\ next_offset = 0 /\ previous_offset = None
    /\ total_size = 0 /\ entries = <<>> /\ entry_idx = 1 /\ extracted_count = 0
    /\ archive = <<>> /\ trailing = <<>>
    /\ total_consumed = 0 /\ any_decompressed = FALSE /\ current_offset = 0
    /\ any_output_this_member = FALSE /\ members = <<>> /\ data_len = 0
    /\ member_log = <<>> /\ chunks_read = 0

ParseHeader ==
    /\ prog = "parse" /\ pc = "parse"
    /\ parsed' = parse_cpio_entry_header(file_data)
    /\ pc' = "done"
    /\ UNCHANGED <<prog, file_data, offset, output_directory, result, fs_ops,
                   header_fields, fault, cpio_vars, bzip2_vars>>

Next ==
    \/ CpioWalk
    \/ CpioExtractEntry
    \/ CpioReturn
    \/ BzStart
    \/ BzLoop
    \/ BzReadChunk
    \/ BzReadErr
    \/ BzMemberEnd

Spec == Init /\ [][Next]_vars

ParseSpec == InitParse /\ [][ParseHeader]_vars

-----------------------------------------------------------------------------
(* Vocabulary of the properties. *)

Returned == pc = "done"

(* cpio: the bytes the first n generated entries occupy. *)
SpanSum(n) == SumSeq([i \in 1..n |-> EntrySpan(archive[i])])

(* cpio: the generated archive ends in a sentinel whose header and name    *)
(* lie inside the buffer, so the walk reaches and parses it.               *)
TrailerLocated ==
    /\ archive # <<>>
    /\ archive[Len(archive)].name = EOF_MARKER
    /\ LET room == Len(file_data) - (offset + SpanSum(Len(archive) - 1))
       IN  /\ room > CPIO_HEADER_SIZE
           /\ room >= CPIO_HEADER_SIZE + Len(EOF_MARKER)

(* cpio: some creating call on the Chroot succeeded. *)
Materialized ==
    \E k \in 1..Len(fs_ops) : fs_ops[k].ok /\ fs_ops[k].op # "make_executable"

(* bzip2: the chunks held by the output artifact, in order. *)
RECURSIVE ChunksWritten(_)
ChunksWritten(ops) ==
    IF ops = <<>> THEN <<>>
    ELSE (IF Head(ops).ok THEN <<Head(ops).chunk>> ELSE <<>>)
         \o ChunksWritten(Tail(ops))

Artifact == ChunksWritten(fs_ops)

(* bzip2: the first n decoded chunks of member i. *)
ChunkPrefix(i, n) == [k \in 1..n |-> <<i, k>>]

(* bzip2: the decoded plaintext of members 1..n, in member order. *)
RECURSIVE Plaintext(_)
Plaintext(n) ==
    IF n = 0 THEN <<>>
    ELSE Plaintext(n - 1) \o ChunkPrefix(n, members[n].chunks)

EncodedLength == SumSeq([j \in 1..Len(members) |-> members[j].len])

(* bzip2: from offset to its end the buffer is n >= 1 valid members, each  *)
(* producing output.                                                       *)
ValidStream ==
    /\ Len(members) >= 1
    /\ \A i \in 1..Len(members) :
          members[i].ok /\ members[i].chunks > 0 /\ members[i].len > 0
    /\ data_len = offset + EncodedLength

ConsumedBefore(n) == SumSeq([j \in 1..(n - 1) |-> member_log[j].consumed])

-----------------------------------------------------------------------------
(* C1: every carve_file call made for a Regular entry is given exactly     *)
(* the data size S encoded in that entry's header, padding excluded.       *)
C1_CarveLengthIsDataSize ==
    \A k \in 1..Len(fs_ops) :
        fs_ops[k].op = "carve_file" =>
            \E i \in 1..Len(archive) :
                /\ archive[i].name = fs_ops[k].path
                /\ fs_ops[k].size = archive[i].size

C3_WholeStreamDecoded ==
    ( /\ prog = "bzip2" /\ Returned
      /\ ValidStream
      /\ \A k \in 1..Len(fs_ops) : fs_ops[k].ok )
    => /\ result.success
       /\ result.size = Some(EncodedLength)
       /\ output_directory # None => Artifact = Plaintext(Len(members))

(* C4 as claimed: after a call with an output directory the artifact is    *)
(* exactly the output of the members that reached end-of-data.             *)
C4_OnlyCompletedMembers ==
    LET RECURSIVE Completed(_)
        Completed(n) ==
            IF n = 0 THEN <<>>
            ELSE Completed(n - 1)
                 \o (IF member_log[n].end = "eof"
                     THEN ChunkPrefix(member_log[n].idx,
                                      DecoderAt(member_log[n].at).chunks)
                     ELSE <<>>)
    IN  (prog = "bzip2" /\ Returned /\ output_directory # None)
        => Artifact = Completed(Len(member_log))

(* C4 amended: after a call with an output directory the artifact is, in   *)
(* decoding order, the full output of every member that reached            *)
(* end-of-data, followed by the chunks of the failing member decoded       *)
(* before its decode error, or before the chunk whose append failed.       *)
C4_EveryAppendedChunk ==
    LET Kept(e) ==
            CASE e.end = "eof" -> DecoderAt(e.at).chunks
              [] e.end = "error" -> e.chunks
              [] e.end = "write_failed" -> e.chunks - 1
              [] OTHER -> 0
        RECURSIVE Decoded(_)
        Decoded(n) ==
            IF n = 0 THEN <<>>
            ELSE Decoded(n - 1) \o ChunkPrefix(member_log[n].idx, Kept(member_log[n]))
    IN  (prog = "bzip2" /\ Returned /\ output_directory # None)
        => Artifact = Decoded(Len(member_log))

C4_Witness ==
    /\ prog = "bzip2" /\ Returned /\ output_directory # None
    /\ Len(member_log) = 2
    /\ member_log[1].end = "eof" /\ member_log[1].chunks > 0
    /\ member_log[2].end = "error" /\ member_log[2].appended > 0
    /\ Len(Artifact) = member_log[1].chunks + member_log[2].appended

(* C5 as claimed: on return, success is true iff some member produced a    *)
(* decoded chunk during the call.                                          *)
C5_SuccessIffAnyOutput ==
    (prog = "bzip2" /\ Returned)
    => (result.success <=> \E j \in 1..Len(member_log) : member_log[j].chunks > 0)

(* C5 amended: on return, success is true iff some member reached          *)
(* end-of-data having produced a decoded chunk and consumed input; output  *)
(* of a member that then fails does not count.                             *)
C5_SuccessIffCompletedOutput ==
    (prog = "bzip2" /\ Returned)
    => (result.success <=>
            \E j \in 1..Len(member_log) :
                /\ member_log[j].end = "eof"
                /\ member_log[j].chunks > 0
                /\ member_log[j].consumed > 0)

C5_Witness ==
    /\ prog = "bzip2" /\ Returned
    /\ ~result.success
    /\ Len(member_log) = 2
    /\ member_log[1].end = "eof" /\ member_log[1].chunks = 0
    /\ member_log[2].end = "error" /\ member_log[2].chunks > 0

(* C6: when the walk reaches the sentinel after N entries, size is the sum *)
(* over the N + 1 entries of aligned header size + aligned data size.      *)
C6_SizeIsSumOfSpans ==
    (prog = "cpio" /\ result.size # None)
    => /\ Len(archive) = Len(entries) + 1
       /\ archive[Len(archive)].name = EOF_MARKER
       /\ result.size = Some(SpanSum(Len(entries) + 1))

C6_Witness ==
    /\ prog = "cpio" /\ Returned
    /\ result.size # None
    /\ Len(entries) = 2
    /\ archive[1].size % 4 # 0
    /\ archive[3].size > 0

(* C7: with an output directory and the trailer found, success is true iff *)
(* some entry materialized; size is the total consumed size either way.    *)
C7_SuccessIffMaterialized ==
    (prog = "cpio" /\ Returned /\ output_directory # None /\ TrailerLocated)
    => /\ result.success <=> Materialized
       /\ result.size = Some(SpanSum(Len(archive)))

C7_Witness ==
    /\ prog = "cpio" /\ Returned /\ output_directory # None /\ TrailerLocated
    /\ Len(entries) = 2
    /\ Len(fs_ops) >= 1
    /\ ~Materialized
    /\ ~result.success
    /\ result.size # None

(* C8: without an output directory no Chroot call is made by either        *)
(* extractor; extract_cpio makes none either when the trailer is not       *)
(* found, and in both cases its success is 'trailer located'.              *)
C8_DryRunWritesNothing ==
    /\ output_directory = None => fs_ops = <<>>
    /\ (prog = "cpio" /\ ~TrailerLocated) => fs_ops = <<>>
    /\ (prog = "cpio" /\ Returned /\ (output_directory = None \/ ~TrailerLocated))
       => result.success = TrailerLocated

C8_Witness ==
    /\ prog = "cpio" /\ Returned
    /\ output_directory = None
    /\ TrailerLocated
    /\ Len(entries) >= 1
    /\ result.success
    /\ fs_ops = <<>>

(* C9: a returned size is absent only when no input was consumed: no entry *)
(* header was parsed (total_size = 0) and no member consumed.              *)
C9_SizeAbsentOnlyWhenNothingConsumed ==
    (Returned /\ result.size = None) => (total_size = 0 /\ total_consumed = 0)

(* C10: every recorded entry's data region lies inside the buffer, and a   *)
(* returned size does not carry the start offset past the buffer's end.    *)
C10_OffsetsWithinBuffer ==
    prog = "cpio"
    => /\ \A i \in 1..Len(entries) :
             entries[i].data_offset + entries[i].data_size <= Len(file_data)
       /\ result.size # None => offset + Unwrap(result.size) <= Len(file_data)

(* cpio: the calls that create a device node, and the generated entry a   *)
(* call was made for (names are unique in a generated archive).            *)
DeviceOps == {"create_block_device", "create_character_device"}

EntryNamed(path) == CHOOSE i \in 1..Len(archive) : archive[i].name = path

(* C11: a block / character device call is made only for an entry whose    *)
(* mode classifies as BlockDevice / CharDevice, with the dev_major and     *)
(* dev_minor of that entry's header; calls for all other entries carry no  *)
(* device numbers.                                                         *)
C11_DeviceNodesFromOwnHeader ==
    prog = "cpio" =>
    \A k \in 1..Len(fs_ops) :
        /\ \E i \in 1..Len(archive) : archive[i].name = fs_ops[k].path
        /\ LET d == archive[EntryNamed(fs_ops[k].path)]
               type == parse_file_type(d.mode)
           IN  /\ fs_ops[k].op = "create_block_device" <=> type = "BlockDevice"
               /\ fs_ops[k].op = "create_character_device" <=> type = "CharDevice"
               /\ fs_ops[k].op \in DeviceOps
                  => /\ fs_ops[k].major = d.dev_major
                     /\ fs_ops[k].minor = d.dev_minor
               /\ fs_ops[k].op \notin DeviceOps
                  => DOMAIN fs_ops[k] \cap {"major", "minor"} = {}

C11_Witness ==
    /\ prog = "cpio" /\ Returned
    /\ \E k \in 1..Len(fs_ops) :
          /\ fs_ops[k].op = "create_block_device"
          /\ fs_ops[k].major # fs_ops[k].minor
    /\ \E k \in 1..Len(fs_ops) : fs_ops[k].op \notin DeviceOps

(* C13: bzip2_decompressor called with offset >= len(buffer), the empty   *)
(* buffer included, returns success = false and size = None, and no        *)
(* decoder was opened and nothing was written.                             *)
C13_StartPastEndReturnsDefault ==
    prog = "bzip2" /\ offset >= data_len
    => /\ member_log = <<>>
       /\ fs_ops = <<>>
       /\ pc \in {"start", "done"}
       /\ Returned => result = DefaultResult

C13_Witness ==
    /\ prog = "bzip2" /\ Returned
    /\ offset = data_len /\ data_len > 0
    /\ output_directory # None
    /\ result = [success |-> FALSE, size |-> None]

(* C17: the member loop of bzip2_decompressor terminates: at every        *)
(* iteration current_offset = offset + total_consumed <= len(buffer), a    *)
(* member that ends either exits the loop or moves current_offset strictly *)
(* forward, so that the number of decoders opened is bounded by the       *)
(* buffer length; a call that has not returned can always take a step.     *)
C17_MemberLoopTerminates ==
    /\ [](prog = "bzip2" /\ pc \in {"loop", "read"}
          => /\ current_offset = offset + total_consumed
             /\ current_offset <= data_len
             /\ Len(member_log) > 0 => Len(member_log) <= data_len - offset
             /\ ENABLED (BzLoop \/ BzReadChunk \/ BzReadErr \/ BzMemberEnd))
    /\ [][prog = "bzip2" /\ pc = "read"
          => \/ pc' = "read" /\ current_offset' = current_offset
             \/ pc' = "done"
             \/ pc' = "loop" /\ current_offset' > current_offset]_vars

C17_Witness ==
    /\ prog = "bzip2" /\ Returned
    /\ Len(member_log) >= 2
    /\ member_log[1].consumed > 0
    /\ current_offset = data_len
    /\ current_offset = offset + total_consumed

(* bzip2: the member whose decode error or write failure ended the call.  *)
Aborted ==
    /\ Len(member_log) > 0
    /\ member_log[Len(member_log)].end \in {"error", "write_failed"}

(* C18 as stated: on every return path of bzip2_decompressor size is       *)
(* present exactly when the total of input bytes consumed is greater than  *)
(* zero; a failure in the first member yields an absent size.              *)
C18_SizePresentIffConsumed ==
    prog = "bzip2" /\ Returned
    => (result.size # None <=> ConsumedBefore(Len(member_log) + 1) > 0)

(* C18 amended: when the member loop ends by itself (or the offset is past *)
(* the end) size is present exactly when the total consumed is greater     *)
(* than zero; when a decode error or write failure ends the call size is   *)
(* always present and equals the total consumed so far, which is 0 when    *)
(* the failure is in the first member.                                     *)
C18_SizePresentOrAborted ==
    prog = "bzip2" /\ Returned
    => LET consumed == ConsumedBefore(Len(member_log) + 1)
       IN  IF Aborted
           THEN result.size = Some(consumed)
           ELSE result.size = IF consumed > 0 THEN Some(consumed) ELSE None

C18_Witness ==
    /\ prog = "bzip2" /\ Returned
    /\ Len(member_log) = 1 /\ Aborted
    /\ result.size = Some(0)

(* cpio: the size that the headers found in `data` from `at` on lead to,   *)
(* read from the buffer alone: the spans of the entries up to and          *)
(* including the first sentinel, or nothing when none is reached.          *)
RECURSIVE WalkedSize(_, _, _, _)
WalkedSize(data, at, previous, total) ==
    IF ~is_offset_safe(Len(data), at, previous) THEN None
    ELSE UNION {
           IF ~header.ok THEN None
           ELSE IF IsEofMarker(header.file_name)
                THEN Some(total + EntryTotalSize(header))
                ELSE WalkedSize(data, at + EntryTotalSize(header), Some(at),
                                total + EntryTotalSize(header)) :
           header \in {HeaderAt(data, at)} }

(* C20: the size extract_cpio returns is determined by the buffer and the  *)
(* start offset alone: with or without an output directory, and whatever   *)
(* the materialization calls answered, it is the size the headers in the   *)
(* buffer lead to; only success depends on the output directory.           *)
(* Stated in two parts: when enumeration has ended and no Chroot call has  *)
(* been made yet the size is that value, and no later step changes it.     *)
C20_SizeFromBufferAndOffsetOnly ==
    /\ [](prog = "cpio" /\ pc # "walk" /\ fs_ops = <<>>
          => result.size = WalkedSize(file_data, offset, None, 0))
    /\ [](prog = "cpio" /\ Returned
          => /\ result.success => result.size # None
             /\ output_directory = None => result.success = (result.size # None))
    /\ [][prog = "cpio" /\ pc # "walk" => result'.size = result.size]_vars

C20_Witness ==
    /\ prog = "cpio" /\ Returned
    /\ output_directory # None
    /\ Len(entries) = 2
    /\ Len(fs_ops) = 2
    /\ ~result.success
    /\ result.size = Some(SpanSum(Len(archive)))

(* cpio: the creating calls made on the Chroot, in order, and the call    *)
(* that creates an entry of a given type.                                  *)
CreatingOps == SelectSeq(fs_ops, LAMBDA o : o.op # "make_executable")

OpOfType(type) ==
    CASE type = "Directory" -> "create_directory"
      [] type = "Regular" -> "carve_file"
      [] type = "Symlink" -> "create_symlink"
      [] type = "Fifo" -> "create_fifo"
      [] type = "Socket" -> "create_socket"
      [] type = "BlockDevice" -> "create_block_device"
      [] type = "CharDevice" -> "create_character_device"

(* cpio: the generated entries before the sentinel whose mode has a type.  *)
TypedEntries ==
    SelectSeq(SubSeq(archive, 1, Len(archive) - 1),
              LAMBDA d : parse_file_type(d.mode) # "Unknown")

(* C14: when extract_cpio materializes, every recorded entry is attempted  *)
(* exactly once and in archive order whatever happened to earlier entries: *)
(* the creating calls are, in order, one per entry of a known type, an     *)
(* Unknown entry causes no call, and success is true iff some call         *)
(* succeeded, so a failed or Unknown entry costs only itself.              *)
C14_EveryEntryAttemptedOnce ==
    (prog = "cpio" /\ Returned /\ output_directory # None /\ TrailerLocated)
    => /\ entry_idx = Len(entries) + 1
       /\ Len(CreatingOps) = Len(TypedEntries)
       /\ \A k \in 1..Len(CreatingOps) :
             /\ CreatingOps[k].path = TypedEntries[k].name
             /\ CreatingOps[k].op = OpOfType(parse_file_type(TypedEntries[k].mode))
       /\ extracted_count = Cardinality({k \in 1..Len(CreatingOps) : CreatingOps[k].ok})
       /\ result.success <=> \E k \in 1..Len(CreatingOps) : CreatingOps[k].ok

C14_Witness ==
    /\ prog = "cpio" /\ Returned /\ output_directory # None /\ TrailerLocated
    /\ Len(entries) = 2
    /\ entries[1].file_type = "Unknown"
    /\ Len(CreatingOps) = 1
    /\ CreatingOps[1].path = entries[2].name
    /\ result.success

(* cpio: where the sentinel of the generated archive starts, and the names *)
(* of what follows it.                                                     *)
SentinelOffset == offset + SpanSum(Len(archive) - 1)

TrailingNames == {trailing[i].name : i \in 1..Len(trailing)}

(* C15: enumeration stops at the first entry named TRAILER!!!: the sentinel *)
(* is never recorded or materialized, no header is parsed at an offset     *)
(* after the sentinel's, nothing located after the sentinel is recorded,   *)
(* materialized or added to size, and success is true once the sentinel    *)
(* has been met.                                                           *)
C15_StopsAtFirstTrailer ==
    (prog = "cpio" /\ TrailerLocated)
    => /\ Len(entries) <= Len(archive) - 1
       /\ \A i \in 1..Len(entries) :
             /\ entries[i].name = archive[i].name
             /\ entries[i].name \notin TrailingNames \cup {EOF_MARKER}
       /\ next_offset <= SentinelOffset
       /\ \A k \in 1..Len(fs_ops) :
             fs_ops[k].path \notin TrailingNames \cup {EOF_MARKER}
       /\ total_size <= SpanSum(Len(archive))
       /\ pc # "walk"
          => /\ next_offset = SentinelOffset
             /\ Len(entries) = Len(archive) - 1
             /\ result.size = Some(SpanSum(Len(archive)))
       /\ pc = "extract" \/ (Returned /\ output_directory = None)
          => result.success

C15_Witness ==
    /\ prog = "cpio" /\ Returned /\ TrailerLocated
    /\ output_directory # None
    /\ Len(trailing) = 1 /\ trailing[1].name # EOF_MARKER
    /\ Len(file_data) >= SentinelOffset + EntrySpan(archive[Len(archive)])
                         + EntrySpan(trailing[1])
    /\ Len(entries) = 1
    /\ Len(fs_ops) >= 1
    /\ result.success

(* C16: the enumeration loop of extract_cpio terminates: a header is      *)
(* accepted only at an offset inside the buffer and strictly greater than  *)
(* the previously accepted one, so accepted offsets strictly increase and  *)
(* the number of recorded entries is bounded by the buffer length; when    *)
(* the loop ends on an unsafe offset or a parse failure the call returns   *)
(* success = false and no size.                                            *)
C16_EnumerationTerminates ==
    /\ [](prog = "cpio"
          => /\ Len(entries) <= Len(file_data)
             /\ previous_offset # None
                => /\ Unwrap(previous_offset) < next_offset
                   /\ Unwrap(previous_offset) < Len(file_data)
             /\ (pc # "walk" /\ ~TrailerLocated)
                => /\ Returned
                   /\ result = [success |-> FALSE, size |-> None]
                   /\ fs_ops = <<>>)
    /\ [][prog = "cpio" /\ pc = "walk" /\ pc' = "walk"
          => /\ next_offset < Len(file_data)
             /\ next_offset' > next_offset
             /\ previous_offset' = Some(next_offset)
             /\ Len(entries') = Len(entries) + 1]_vars

C16_Witness ==
    /\ prog = "cpio" /\ Returned /\ ~TrailerLocated
    /\ Len(entries) = 2
    /\ Len(archive) = 2
    /\ next_offset > Len(file_data)
    /\ result = [success |-> FALSE, size |-> None]

(* C12 as stated: encoding a header with a mode, a data size S and a name *)
(* and parsing it yields that mode, data_size = S and that name, with      *)
(* header_size and data_size multiples of 4.                               *)
C12_RoundTripDataSize ==
    (prog = "parse" /\ Returned /\ fault = NoFault)
    => /\ parsed.ok
       /\ parsed.mode = header_fields.mode
       /\ parsed.data_size = header_fields.size
       /\ parsed.file_name = header_fields.name
       /\ parsed.header_size % 4 = 0
       /\ parsed.data_size % 4 = 0

(* C12 amended: the parse yields the encoded mode, name and device         *)
(* numbers; data_size is S rounded up to a multiple of 4 (S itself only    *)
(* when S is a multiple of 4) and header_size is 110 + the name size       *)
(* rounded up to a multiple of 4.                                          *)
C12_RoundTripAlignedDataSize ==
    (prog = "parse" /\ Returned /\ fault = NoFault)
    => /\ parsed.ok
       /\ parsed.mode = header_fields.mode
       /\ parsed.file_name = header_fields.name
       /\ parsed.dev_major = header_fields.dev_major
       /\ parsed.dev_minor = header_fields.dev_minor
       /\ parsed.data_size \in header_fields.size..(header_fields.size + 3)
       /\ parsed.data_size % 4 = 0
       /\ parsed.header_size \in
             (CPIO_HEADER_SIZE + Len(header_fields.name) + NULL_BYTE_SIZE)
             ..(CPIO_HEADER_SIZE + Len(header_fields.name) + NULL_BYTE_SIZE + 3)
       /\ parsed.header_size % 4 = 0

C12_Witness ==
    /\ prog = "parse" /\ Returned /\ fault = NoFault
    /\ parsed.ok
    /\ header_fields.size % 4 # 0
    /\ parsed.data_size > header_fields.size
    /\ Len(header_fields.name) = 2
    /\ parsed.file_name = header_fields.name

(* C19: parse_cpio_entry_header returns a header only when the slice is    *)
(* longer than the fixed header, each of the six fixed fields (magic       *)
(* included) is UTF-8 text that decodes as a base-16 integer, and the name *)
(* lies inside the slice and is UTF-8; a slice damaged in any one of these *)
(* is refused.                                                             *)
C19_NoPartialSuccess ==
    (prog = "parse" /\ Returned) => (parsed.ok <=> fault = NoFault)

(* What the code does: damage to the magic goes unnoticed, every other     *)
(* damage is refused.                                                      *)
ParseRefusesAllButMagic ==
    (prog = "parse" /\ Returned)
    => (parsed.ok <=> (fault = NoFault \/ fault.field = "magic"))

=============================================================================
